---- MODULE Spec2Model ----
(***************************************************************************)
(* Model of paper_translator.py (src/test1.py): the translation engine     *)
(* translate_text_with_ollama, the classifier is_translation_error and the *)
(* loop of search_and_translate_papers.                                    *)
(*                                                                         *)
(* Text is a sequence of units.  A unit is a one-character string for an   *)
(* ASCII character, "U+XXXX" for a non-ASCII character, and "xFF"/"xFE"    *)
(* for a byte that is not valid UTF-8 (these occur only in raw bodies).    *)
(***************************************************************************)
EXTENDS Integers, Sequences, FiniteSets, TLC

(***************************************************************************)
(* Bounds of the model.                                                    *)
(***************************************************************************)
\* largest value of --max explored
MaxResults ==
    2

(***************************************************************************)
(* Text helpers (Python str operations used by the program).               *)
(***************************************************************************)
\* the units of an ASCII string literal
Chars(s) ==
    SubSeq([k \in 1..Len(s) |-> SubSeq(s, k, k)], 1, Len(s))

\* str.startswith
startswith(t, p) ==
    /\ Len(p) <= Len(t)
    /\ SubSeq(t, 1, Len(p)) = p

\* p occurs in t at position k
OccursAt(t, p, k) ==
    /\ k >= 1
    /\ k + Len(p) - 1 <= Len(t)
    /\ SubSeq(t, k, k + Len(p) - 1) = p

\* Python's `p in t`
Contains(t, p) ==
    \E k \in 1..(Len(t) + 1) : OccursAt(t, p, k)

\* characters str.strip() removes (str.isspace), those the model's texts use
Whitespace ==
    {" ", "\t", "\n", "\r", "U+00A0", "U+3000"}

RECURSIVE lstrip(_)
lstrip(t) ==
    IF t # <<>> /\ Head(t) \in Whitespace THEN lstrip(Tail(t)) ELSE t

RECURSIVE rstrip(_)
rstrip(t) ==
    IF t # <<>> /\ t[Len(t)] \in Whitespace
    THEN rstrip(SubSeq(t, 1, Len(t) - 1))
    ELSE t

\* str.strip()
strip(t) ==
    rstrip(lstrip(t))

\* str.replace(old, new) for non-empty old: one left-to-right pass over the
\* original text, replacing non-overlapping occurrences; the replaced text
\* is not scanned again.
RECURSIVE replace(_, _, _)
replace(t, old, new) ==
    LET occ == {k \in 1..(Len(t) - Len(old) + 1) : OccursAt(t, old, k)}
    IN  IF occ = {} THEN t
        ELSE LET k == CHOOSE j \in occ : \A m \in occ : j <= m
             IN  SubSeq(t, 1, k - 1) \o new
                     \o replace(SubSeq(t, k + Len(old), Len(t)), old, new)

(***************************************************************************)
(* bytes.decode('utf-8', errors='ignore'): bytes that are not valid UTF-8  *)
(* are dropped, everything else is kept in order.                          *)
(***************************************************************************)
InvalidBytes ==
    {"xFF", "xFE"}

IsValidUnit(u) ==
    u \notin InvalidBytes

decode_utf8_ignore(content) ==
    SelectSeq(content, IsValidUnit)

(***************************************************************************)
(* json.loads, for the JSON the model's bodies use: objects, arrays,       *)
(* strings with the escapes \" \\ \/ \n \t \r, integers, true/false/null,  *)
(* whitespace between tokens.  A value is [t |-> tag, v |-> payload]:      *)
(*   "str": v the text;  "num": v the lexeme;  "lit": v the literal's name *)
(*   "arr": v the sequence of values;  "obj": v the sequence of            *)
(*   <<key, value>> pairs in document order.                               *)
(* A parse result is [ok, val, pos], pos the index after the value.        *)
(***************************************************************************)
JsonWs ==
    {" ", "\t", "\n", "\r"}

Digits ==
    {"0", "1", "2", "3", "4", "5", "6", "7", "8", "9"}

ParseFail ==
    [ok |-> FALSE, val |-> [t |-> "lit", v |-> <<>>], pos |-> 0]

ParseOk(val, pos) ==
    [ok |-> TRUE, val |-> val, pos |-> pos]

RECURSIVE SkipWs(_, _)
SkipWs(t, p) ==
    IF p <= Len(t) /\ t[p] \in JsonWs THEN SkipWs(t, p + 1) ELSE p

Unescape(c) ==
    CASE c = "n" -> "\n"
      [] c = "t" -> "\t"
      [] c = "r" -> "\r"
      [] OTHER -> c

\* number of backslashes that immediately precede position q, counted back
\* no further than position p (the start of the string's inside)
BackslashRun(t, p, q) ==
    IF q <= p \/ t[q - 1] # "\\" THEN 0
    ELSE Cardinality({n \in 1..(q - p) : \A m \in 1..n : t[q - m] = "\\"})

\* the character at q is the second character of an escape
IsEscaped(t, p, q) ==
    BackslashRun(t, p, q) % 2 = 1

\* the inside of a string literal that starts at position p (after the
\* opening quote): up to the first quote that is not escaped; raw control
\* characters and unknown escapes are errors
ScanString(t, p) ==
    LET closers == {q \in p..Len(t) : t[q] = "\"" /\ ~IsEscaped(t, p, q)}
    IN  IF closers = {} THEN ParseFail
        ELSE LET e == CHOOSE q \in closers : \A m \in closers : q <= m
                 Introducer(q) == t[q] = "\\" /\ ~IsEscaped(t, p, q)
                 Kept(q) == ~Introducer(q)
                 kept == SelectSeq([k \in 1..(e - p) |-> p + k - 1], Kept)
                 bad == \E q \in p..(e - 1) :
                           \/ t[q] \in {"\n", "\t", "\r"}
                           \/ /\ Introducer(q)
                              /\ t[q + 1] \notin {"\"", "\\", "/", "n", "t", "r"}
             IN  IF bad THEN ParseFail
                 ELSE ParseOk([t |-> "str",
                               v |-> SubSeq([k \in 1..Len(kept) |->
                                               IF IsEscaped(t, p, kept[k])
                                               THEN Unescape(t[kept[k]])
                                               ELSE t[kept[k]]],
                                            1, Len(kept))],
                              e + 1)

RECURSIVE ScanDigits(_, _)
ScanDigits(t, p) ==
    IF p <= Len(t) /\ t[p] \in Digits THEN ScanDigits(t, p + 1) ELSE p

\* -?(0|[1-9][0-9]*)
ParseNumber(t, p) ==
    LET q == IF t[p] = "-" THEN p + 1 ELSE p
        e == IF q <= Len(t) /\ t[q] = "0" THEN q + 1 ELSE ScanDigits(t, q)
    IN  IF e = q THEN ParseFail
        ELSE ParseOk([t |-> "num", v |-> SubSeq(t, p, e - 1)], e)

ParseLiteral(t, p, name) ==
    IF OccursAt(t, Chars(name), p)
    THEN ParseOk([t |-> "lit", v |-> Chars(name)], p + Len(name))
    ELSE ParseFail

RECURSIVE ParseValue(_, _)
RECURSIVE ParseElements(_, _, _)
RECURSIVE ParseMembers(_, _, _)

\* after "[" and at least one element expected
ParseElements(t, p, acc) ==
    LET r == ParseValue(t, p)
        q == SkipWs(t, r.pos)
    IN  IF ~r.ok \/ q > Len(t) THEN ParseFail
        ELSE IF t[q] = "," THEN ParseElements(t, q + 1, Append(acc, r.val))
        ELSE IF t[q] = "]"
             THEN ParseOk([t |-> "arr", v |-> Append(acc, r.val)], q + 1)
        ELSE ParseFail

\* after "{" and at least one member expected
ParseMembers(t, p, acc) ==
    LET k == SkipWs(t, p)
        key == IF k <= Len(t) /\ t[k] = "\""
               THEN ScanString(t, k + 1) ELSE ParseFail
        c == SkipWs(t, key.pos)
        r == ParseValue(t, c + 1)
        q == SkipWs(t, r.pos)
    IN  IF ~key.ok \/ c > Len(t) THEN ParseFail
        ELSE IF t[c] # ":" THEN ParseFail
        ELSE IF ~r.ok \/ q > Len(t) THEN ParseFail
        ELSE IF t[q] = ","
             THEN ParseMembers(t, q + 1, Append(acc, <<key.val.v, r.val>>))
        ELSE IF t[q] = "}"
             THEN ParseOk([t |-> "obj",
                           v |-> Append(acc, <<key.val.v, r.val>>)], q + 1)
        ELSE ParseFail

ParseValue(t, p0) ==
    LET p == SkipWs(t, p0)
    IN  IF p > Len(t) THEN ParseFail
        ELSE IF t[p] = "{"
             THEN LET q == SkipWs(t, p + 1)
                  IN  IF q <= Len(t) /\ t[q] = "}"
                      THEN ParseOk([t |-> "obj", v |-> <<>>], q + 1)
                      ELSE ParseMembers(t, p + 1, <<>>)
        ELSE IF t[p] = "["
             THEN LET q == SkipWs(t, p + 1)
                  IN  IF q <= Len(t) /\ t[q] = "]"
                      THEN ParseOk([t |-> "arr", v |-> <<>>], q + 1)
                      ELSE ParseElements(t, p + 1, <<>>)
        ELSE IF t[p] = "\"" THEN ScanString(t, p + 1)
        ELSE IF t[p] \in Digits \cup {"-"} THEN ParseNumber(t, p)
        ELSE IF t[p] = "n" THEN ParseLiteral(t, p, "null")
        ELSE IF t[p] = "t" THEN ParseLiteral(t, p, "true")
        ELSE IF t[p] = "f" THEN ParseLiteral(t, p, "false")
        ELSE ParseFail

\* json.loads: one value, then only whitespace; anything else is a
\* JSONDecodeError (ok = FALSE)
json_loads(text) ==
    LET r == ParseValue(text, 1)
    IN  IF r.ok /\ SkipWs(text, r.pos) = Len(text) + 1 THEN r ELSE ParseFail

\* dict.get(key, default) on a parsed object: the last member with that key
RECURSIVE dict_get(_, _, _)
dict_get(members, key, default) ==
    IF members = <<>> THEN default
    ELSE IF members[Len(members)][1] = key THEN members[Len(members)][2]
    ELSE dict_get(SubSeq(members, 1, Len(members) - 1), key, default)

(***************************************************************************)
(* The translation engine.                                                 *)
(***************************************************************************)
OLLAMA_API_URL ==
    Chars("http://localhost:11434/api/generate")

\* the f-string of translate_text_with_ollama, one substitution slot
prompt(text) ==
    Chars("You are a silent, professional Japanese translation engine. ")
    \o Chars("Your task is to translate the following English academic ")
    \o Chars("abstract into Japanese.\n\n**Strict Instructions:**\n")
    \o Chars("- **CRITICAL: You MUST output using Japanese characters ")
    \o Chars("(Kanji, Hiragana, Katakana). Do NOT use Romaji.**\n")
    \o Chars("- Translate the text into natural-sounding, clear, and ")
    \o Chars("accurate Japanese.\n")
    \o Chars("- Maintain a professional and academic tone.\n")
    \o Chars("- **CRITICAL: You MUST complete the translation.** ")
    \o Chars("Do not stop halfway.\n")
    \o Chars("- **CRITICAL: Do NOT output ANYTHING other than the ")
    \o Chars("translated Japanese text.** Do not include preambles, ")
    \o Chars("apologies, or any meta-commentary.\n\n")
    \o Chars("--- English Abstract ---\n")
    \o text
    \o Chars("\n--- End of Abstract ---\n")

payload(text, model_name) ==
    [url |-> OLLAMA_API_URL, model |-> model_name,
     prompt |-> prompt(text), stream |-> FALSE]

\* the default of response_data.get("response", ...)
NO_RESULT ==
    <<"U+7FFB", "U+8A33", "U+7D50", "U+679C", "U+304C", "U+3042", "U+308A",
      "U+307E", "U+305B", "U+3093", "U+3002">>

unwanted_phrases ==
    << Chars("Here is the translation:"),
       Chars("Here is the translation of the English text into Japanese:") >>

\* the text returned by the handler of requests.exceptions.RequestException
ERR_CONNECT ==
    <<"U+7FFB", "U+8A33", "U+30A8", "U+30E9", "U+30FC", "U+FF1A">>
    \o Chars("Ollama API")
    \o <<"U+306B", "U+63A5", "U+7D9A", "U+3067", "U+304D", "U+307E", "U+305B",
         "U+3093", "U+3067", "U+3057", "U+305F", "U+3002">>
    \o Chars("Ollama")
    \o <<"U+304C", "U+8D77", "U+52D5", "U+3057", "U+3066", "U+3044", "U+308B",
         "U+304B", "U+78BA", "U+8A8D", "U+3057", "U+3066", "U+304F", "U+3060",
         "U+3055", "U+3044", "U+3002">>

\* variant of ERR_PARSE: the message written without the leading marker
ERR_PARSE_unmarked ==
    Chars("Ollama")
    \o <<"U+304B", "U+3089", "U+306E", "U+30EC", "U+30B9", "U+30DD", "U+30F3",
         "U+30B9", "U+306E", "U+89E3", "U+6790", "U+306B", "U+5931", "U+6557",
         "U+3057", "U+307E", "U+3057", "U+305F", "U+3002">>

\* the text returned by the handler of json.JSONDecodeError
ERR_PARSE ==
    <<"U+7FFB", "U+8A33", "U+30A8", "U+30E9", "U+30FC", "U+FF1A">>
    \o Chars("Ollama")
    \o <<"U+304B", "U+3089", "U+306E", "U+30EC", "U+30B9", "U+30DD", "U+30F3",
         "U+30B9", "U+306E", "U+89E3", "U+6790", "U+306B", "U+5931", "U+6557",
         "U+3057", "U+307E", "U+3057", "U+305F", "U+3002">>

\* the literal is_translation_error looks for
ERROR_MARKER ==
    <<"U+7FFB", "U+8A33", "U+30A8", "U+30E9", "U+30FC">>

\* variant of is_translation_error: only the first two characters of the
\* marker are compared
is_translation_error_short(translated_text) ==
    startswith(translated_text, SubSeq(ERROR_MARKER, 1, 2))

is_translation_error(translated_text) ==
    startswith(translated_text, ERROR_MARKER)

\* Response.raise_for_status(): HTTPError for 4xx and 5xx, nothing else
raise_for_status(status) ==
    400 <= status /\ status < 600

\* for phrase in unwanted_phrases: text = text.replace(phrase, "")
RECURSIVE remove_phrases(_, _)
remove_phrases(text, phrases) ==
    IF phrases = <<>> THEN text
    ELSE remove_phrases(replace(text, Head(phrases), <<>>), Tail(phrases))

\* how a call ends: a value returned from the try body ("return") or from
\* an except handler (named after the exception), or an exception that no
\* handler of the function catches (raised = TRUE)
Returned(path, value) ==
    [raised |-> FALSE, path |-> path, value |-> value]

Raised(exc) ==
    [raised |-> TRUE, path |-> exc, value |-> <<>>]

\* reply: what requests.post meets: [kind, status, content] with kind
\* "refused", "timeout" or "response" (a status line and a body)
translate_text_with_ollama(text, model_name, reply) ==
    IF reply.kind # "response" \/ raise_for_status(reply.status)
    THEN Returned("RequestException", ERR_CONNECT)
    ELSE LET response_text == decode_utf8_ignore(reply.content)
             response_data == json_loads(response_text)
         IN  IF ~response_data.ok
             THEN Returned("JSONDecodeError", ERR_PARSE)
             ELSE IF response_data.val.t # "obj"
             THEN Raised("AttributeError")
             ELSE LET got == dict_get(response_data.val.v, Chars("response"),
                                      [t |-> "str", v |-> NO_RESULT])
                  IN  IF got.t # "str" THEN Raised("AttributeError")
                      ELSE Returned("return",
                             remove_phrases(strip(got.v), unwanted_phrases))

(***************************************************************************)
(* The environment: what the endpoint may answer and what arXiv may find.  *)
(***************************************************************************)
KONNICHIWA ==
    <<"U+3053", "U+3093", "U+306B", "U+3061", "U+306F">>

Quoted(text) ==
    <<"\"">> \o text \o <<"\"">>

ResponseBody(text) ==
    Chars("{\"response\": ") \o Quoted(text) \o Chars("}")

BodyPlain ==
    ResponseBody(KONNICHIWA)

BodyBoilerplate ==
    ResponseBody(Chars("Here is the translation: ") \o KONNICHIWA)

BodyPadded ==
    ResponseBody(Chars("  ") \o KONNICHIWA \o Chars(" \\n"))

BodyNoField ==
    Chars("{\"model\": \"llama3\", \"done\": true}")

BodyArray ==
    Chars("[1, 2]")

BodyNumberField ==
    Chars("{\"response\": 5}")

BodyNullField ==
    Chars("{\"response\": null}")

BodyTruncated ==
    Chars("{\"response\": \"") \o KONNICHIWA

BodyEmpty ==
    <<>>

BodyBadBytes ==
    Chars("{\"resp") \o <<"xFF">> \o Chars("onse\": \"")
    \o SubSeq(KONNICHIWA, 1, 2) \o <<"xFE">> \o SubSeq(KONNICHIWA, 3, 5)
    \o Chars("\"}")

BodyMarker ==
    ResponseBody(ERROR_MARKER \o <<"U+306E", "U+7814", "U+7A76">>)

BodyNested ==
    ResponseBody(Chars("Here is the Here is the translation:translation:")
                 \o KONNICHIWA)

BodySecondPhrase ==
    ResponseBody(unwanted_phrases[2] \o KONNICHIWA)

BodyHtml ==
    Chars("<html>Not Found</html>")

Bodies ==
    {BodyPlain, BodyBoilerplate, BodyPadded, BodyNoField, BodyArray,
     BodyNumberField, BodyNullField, BodyTruncated, BodyEmpty, BodyBadBytes,
     BodyMarker, BodyNested, BodySecondPhrase}

Response(status, content) ==
    [kind |-> "response", status |-> status, content |-> content]

NoResponse(kind) ==
    [kind |-> kind, status |-> 0, content |-> <<>>]

\* what one requests.post can meet: no connection, no answer within the
\* timeout, or the final response (requests follows 301/302/303/307/308
\* with a Location header itself; 300 is handed to the caller)
EndpointReplies ==
    {NoResponse("refused"), NoResponse("timeout")}
    \cup {Response(200, b) : b \in Bodies}
    \cup {Response(201, BodyPlain), Response(204, BodyEmpty),
          Response(300, BodyPlain), Response(300, BodyTruncated),
          Response(404, BodyPlain), Response(404, BodyHtml),
          Response(503, BodyEmpty)}

Models ==
    {"llama3", "phi3:medium"}

Paper(title, entry_id, summary) ==
    [title |-> title, entry_id |-> entry_id, summary |-> summary]

Papers ==
    {Paper("GNN", "http://arxiv.org/abs/1",
           Chars("Graph neural networks improve\nmolecule generation.")),
     Paper("QC", "http://arxiv.org/abs/2",
           Chars("Quantum circuits.")),
     Paper("TR", "http://arxiv.org/abs/3",
           Chars("Quantum circuits."))}

Injective(seq) ==
    \A a, b \in 1..Len(seq) : seq[a] = seq[b] => a = b

\* the result lists arXiv can return for max_results = n
ResultLists(n) ==
    UNION {{seq \in [1..len -> Papers] : Injective(seq)} : len \in 0..n}

(***************************************************************************)
(* State of one run of search_and_translate_papers.                        *)
(***************************************************************************)
\* pc: position in search_and_translate_papers;  model_name: --model;
\* max_results: --max;  results: list(search);  i: loop index of
\* enumerate(results), from 0;  request: requests in flight to the endpoint;
\* translated_abstract: value returned by the last engine call;  f: blocks
\* written to the output file;  events: engine calls, writes and sleeps, in
\* order;  last: the last finished engine call, its reply and outcome;
\* caught: the handler of line 144 ran
VARIABLES pc, model_name, max_results, results, i, request, translated_abstract, f, events, last, caught

vars ==
    <<pc, model_name, max_results, results, i, request, translated_abstract,
      f, events, last, caught>>

NoCall ==
    [called |-> FALSE, reply |-> NoResponse("none"),
     result |-> Returned("none", <<>>)]

Init ==
    /\ pc = "search"
    /\ model_name \in Models
    /\ max_results \in 1..MaxResults
    /\ results = <<>>
    /\ i = 0
    /\ request = <<>>
    /\ translated_abstract = <<>>
    /\ f = <<>>
    /\ events = <<>>
    /\ last = NoCall
    /\ caught = FALSE

\* lines 92-108: the search returns a non-empty list and the file is opened
SearchFinds ==
    /\ pc = "search"
    /\ \E rs \in ResultLists(max_results) :
          /\ rs # <<>>
          /\ results' = rs
    /\ pc' = "loop"
    /\ UNCHANGED <<model_name, max_results, i, request, translated_abstract,
                   f, events, last, caught>>

\* lines 100-102: nothing found, return before the file is opened
SearchEmpty ==
    /\ pc = "search"
    /\ pc' = "done"
    /\ UNCHANGED <<model_name, max_results, results, i, request,
                   translated_abstract, f, events, last, caught>>

\* lines 92-98, 144-145: the search raises, the handler prints and returns
SearchRaises ==
    /\ pc = "search"
    /\ pc' = "done"
    /\ caught' = TRUE
    /\ UNCHANGED <<model_name, max_results, results, i, request,
                   translated_abstract, f, events, last>>

\* result.summary.replace('\n', ' ')
abstract(result) ==
    replace(result.summary, <<"\n">>, <<" ">>)

\* lines 109-115 and 28-48: the loop takes record i and the engine posts
CallEngine ==
    /\ pc = "loop"
    /\ i < Len(results)
    /\ request' = Append(request, payload(abstract(results[i + 1]), model_name))
    /\ events' = Append(events, <<"call", i>>)
    /\ pc' = "inflight"
    /\ UNCHANGED <<model_name, max_results, results, i, translated_abstract,
                   f, last, caught>>

\* lines 48-67, then 117-120 or 144-145: the endpoint answers, the engine
\* returns or raises; an exception ends the loop in the handler of line 144
EngineReturns ==
    /\ pc = "inflight"
    /\ \E reply \in EndpointReplies :
          LET r == translate_text_with_ollama(abstract(results[i + 1]),
                                              model_name, reply)
          IN  /\ last' = [called |-> TRUE, reply |-> reply, result |-> r]
              /\ IF r.raised
                 THEN /\ pc' = "done"
                      /\ caught' = TRUE
                      /\ UNCHANGED translated_abstract
                 ELSE /\ pc' = "write"
                      /\ translated_abstract' = r.value
                      /\ UNCHANGED caught
    /\ request' = Tail(request)
    /\ UNCHANGED <<model_name, max_results, results, i, f, events>>

\* lines 123-135 and the test of line 138
WriteBlock ==
    /\ pc = "write"
    /\ f' = Append(f, [title |-> results[i + 1].title,
                       url |-> results[i + 1].entry_id,
                       abstract |-> translated_abstract,
                       failed |-> is_translation_error(translated_abstract)])
    /\ events' = Append(events, <<"write", i>>)
    /\ pc' = IF i < Len(results) - 1 THEN "sleep" ELSE "done"
    /\ UNCHANGED <<model_name, max_results, results, i, request,
                   translated_abstract, last, caught>>

\* line 139, then the next iteration of line 109
Sleep ==
    /\ pc = "sleep"
    /\ events' = Append(events, <<"sleep", i>>)
    /\ i' = i + 1
    /\ pc' = "loop"
    /\ UNCHANGED <<model_name, max_results, results, request,
                   translated_abstract, f, last, caught>>

Next ==
    \/ SearchFinds
    \/ SearchEmpty
    \/ SearchRaises
    \/ CallEngine
    \/ EngineReturns
    \/ WriteBlock
    \/ Sleep

Spec ==
    Init /\ [][Next]_vars

TypeOK ==
    /\ pc \in {"search", "loop", "inflight", "write", "sleep", "done"}
    /\ model_name \in Models
    /\ max_results \in 1..MaxResults
    /\ Len(results) <= max_results
    /\ i \in 0..MaxResults
    /\ Len(request) <= 1
    /\ last.called \in BOOLEAN
    /\ caught \in BOOLEAN

(***************************************************************************)
(* Properties.                                                             *)
(***************************************************************************)
FailurePaths ==
    {"RequestException", "JSONDecodeError"}

Is2xx(reply) ==
    reply.kind = "response" /\ 200 <= reply.status /\ reply.status < 300

Parsed(reply) ==
    json_loads(decode_utf8_ignore(reply.content))

HasKey(members, key) ==
    \E k \in 1..Len(members) : members[k][1] = key

IsPrefix(a, b) ==
    Len(a) <= Len(b) /\ SubSeq(b, 1, Len(a)) = a

\* C1: whatever the endpoint does, a finished call of
\* translate_text_with_ollama has returned a text; no exception leaves the
\* function.
C1_NeverRaises ==
    last.called => ~last.result.raised

\* C2: for status 200 and the body {"response": "Here is the translation:
\* <konnichiwa>"} the call returns exactly <konnichiwa>; and every text
\* returned from the try body has no leading or trailing whitespace.
C2_BoilerplateRemovedAndTrimmed ==
    /\ (last.called /\ last.reply = Response(200, BodyBoilerplate))
          => (/\ ~last.result.raised
              /\ last.result.path = "return"
              /\ last.result.value = KONNICHIWA)
    /\ (last.called /\ last.result.path = "return")
          => strip(last.result.value) = last.result.value

C4_EveryRecordWritten ==
    (pc = "done" /\ results # <<>>)
       => (/\ Len(f) = Len(results)
           /\ \A k \in 1..Len(results) :
                 /\ f[k].title = results[k].title
                 /\ f[k].url = results[k].entry_id)

\* C5: a status outside 2xx never gives a text returned from the try body,
\* whatever the body; and a 2xx answer whose body is not JSON gives a
\* failure text different from the one for connection, timeout and status
\* failures.
C5_StatusAndParseFailures ==
    /\ (last.called /\ last.reply.kind = "response" /\ ~Is2xx(last.reply))
          => (~last.result.raised /\ last.result.path \in FailurePaths)
    /\ (last.called /\ Is2xx(last.reply) /\ ~Parsed(last.reply).ok)
          => (/\ ~last.result.raised
              /\ last.result.path \in FailurePaths
              /\ last.result.value # ERR_CONNECT)

\* the endpoint answered 2xx with a JSON object without a "response" member
MissingField(reply) ==
    /\ Is2xx(reply)
    /\ Parsed(reply).ok
    /\ Parsed(reply).val.t = "obj"
    /\ ~HasKey(Parsed(reply).val.v, Chars("response"))

\* C6: for a 2xx answer that is a JSON object without a "response" member
\* the call does not raise and returns the "no result" sentinel from the try
\* body; the sentinel does not begin with the marker, so
\* is_translation_error is false for it.
C6_MissingFieldGivesSentinel ==
    (last.called /\ MissingField(last.reply))
       => (/\ ~last.result.raised
           /\ last.result.path = "return"
           /\ last.result.value = NO_RESULT
           /\ ~is_translation_error(last.result.value))

\* a call has been answered with an object that has no "response" member
C6_Witness ==
    last.called /\ MissingField(last.reply)

\* C8: for a call that returned, is_translation_error of the returned text
\* is true exactly when the text came from an except handler; no text
\* returned from the try body begins with the marker.
C8_PrefixTellsFailure ==
    (last.called /\ ~last.result.raised)
       => (is_translation_error(last.result.value)
              <=> last.result.path \in FailurePaths)

\* C9: a text returned from the try body contains no occurrence of any
\* phrase of unwanted_phrases.
C9_NoPhraseLeft ==
    (last.called /\ last.result.path = "return")
       => \A k \in 1..Len(unwanted_phrases) :
             ~Contains(last.result.value, unwanted_phrases[k])

\* call, write, sleep for every record but the last; call, write for the last
Schedule(n) ==
    [k \in 1..(IF n = 0 THEN 0 ELSE 3 * n - 1) |->
        << CASE (k - 1) % 3 = 0 -> "call"
             [] (k - 1) % 3 = 1 -> "write"
             [] OTHER -> "sleep",
           (k - 1) \div 3 >>]

\* the part of C10 that constrains order only: one request in flight at
\* most, and the events so far are a prefix of the schedule
PacingOrder ==
    /\ Len(request) <= 1
    /\ IsPrefix(events, Schedule(Len(results)))

\* C10: the engine is called exactly once per record, in result order, with
\* at most one call in flight; after each call but the last the record's
\* block is written and then one delay occurs, and nothing follows the last
\* record's block: the run is the schedule call, write, sleep, ..., call,
\* write over all records.
C10_SequentialOncePerRecord ==
    /\ PacingOrder
    /\ (pc = "done" /\ results # <<>>)
          => events = Schedule(Len(results))
====
